---- MODULE Spec2Model ----
(***************************************************************************)
(* qabuild: build training and evaluation data sets for QA research.       *)
(*                                                                         *)
(* The model follows src/qabuild/src/qabuild.rs.  A run of the program     *)
(* (subcommand train or challenge) loads a SQuAD file into the HashMap     *)
(* raw_examples, applies the partition rules get_clean_examples,           *)
(* get_append_examples, get_twoway_examples or get_challenge_examples and  *)
(* writes each derived split with write_training_examples.                 *)
(*                                                                         *)
(* Strings are sequences of bytes, written as TLA+ strings: Len is the     *)
(* byte length (String::len) and SubSeq the byte slice.  A two-byte UTF-8  *)
(* character is written as the pair "<" ">" (lead byte, continuation       *)
(* byte).  A HashMap is a function on its key set; its iteration order is  *)
(* not fixed, so every loop over a HashMap takes its keys in any order.    *)
(* A file holds the JSON value serde_json reads from it or writes to it;   *)
(* JSON values carry their type tag.                                       *)
(***************************************************************************)
EXTENDS Integers, Sequences, FiniteSets, TLC

VARIABLES
    fs,            \* the directory: path -> JSON value of the file
    runs,          \* runs of the program started so far
    pc,            \* idle, the rule whose loop is running, done or panic
    input_file,    \* main: the INFILE argument of the run
    raw_examples,  \* main: the corpus read_raw_examples returned
    todo,          \* the keys the running loop over raw_examples has left
    out,           \* the HashMap the running rule builds
    count,         \* the running rule's counters
    sample,        \* the running rule's draws: variant id -> sample drawn for it
    written        \* the arguments of the last write_training_examples call

vars ==
    <<fs, runs, pc, input_file, raw_examples, todo, out, count, sample, written>>

(***************************************************************************)
(* Bounds of the model.                                                    *)
(***************************************************************************)
\* Number of runs of the program over the same directory.
MaxRuns == 2

(***************************************************************************)
(* Program constants.                                                      *)
(***************************************************************************)
\* rng.gen_range(0..69808)
SampleRange == 69808
\* get_append_examples: sample < 26009
AppendCleanBound == 26009
\* get_twoway_examples: sample < 11339
TwowayCleanBound == 11339
\* get_twoway_examples: sample < 40469
TwowayAppendBound == 40469

\* The values of rng.gen_range(0..SampleRange) the model draws: both ends of
\* the range and both sides of every threshold.
Samples ==
    {0, TwowayCleanBound - 1, TwowayCleanBound, AppendCleanBound - 1,
     AppendCleanBound, TwowayAppendBound - 1, TwowayAppendBound,
     SampleRange - 1}

(***************************************************************************)
(* Strings.                                                                *)
(***************************************************************************)
\* The byte at 0-based offset i of s.
ByteAt(s, i) == SubSeq(s, i + 1, i + 1)

\* str::contains(char)
Contains(s, c) == \E i \in 1..Len(s) : SubSeq(s, i, i) = c

\* String + &str
Concat(a, b) == a \o b

\* char::is_whitespace, on the bytes the model uses.
IsWhitespace(c) == c \in {" ", "\t", "\n", "\r"}

RECURSIVE TrimStart(_)
TrimStart(s) ==
    IF Len(s) > 0 /\ IsWhitespace(ByteAt(s, 0))
    THEN TrimStart(SubSeq(s, 2, Len(s)))
    ELSE s

RECURSIVE TrimEnd(_)
TrimEnd(s) ==
    IF Len(s) > 0 /\ IsWhitespace(ByteAt(s, Len(s) - 1))
    THEN TrimEnd(SubSeq(s, 1, Len(s) - 1))
    ELSE s

\* str::trim
Trim(s) == TrimEnd(TrimStart(s))

\* A UTF-8 continuation byte (0b10xxxxxx).
IsContinuationByte(c) == c = ">"

\* str::is_char_boundary: 0 and len are boundaries, an offset past the end is
\* not, and an offset inside is one unless it holds a continuation byte.
IsCharBoundary(s, i) ==
    \/ i = 0
    \/ i = Len(s)
    \/ i < Len(s) /\ ~IsContinuationByte(ByteAt(s, i))

\* &s[i..], defined when IsCharBoundary(s, i); the slice panics otherwise.
SliceFrom(s, i) == SubSeq(s, i + 1, Len(s))

\* str::rsplit_once("."): the 1-based place of the last ".", 0 when none.
LastDot(s) ==
    IF Contains(s, ".")
    THEN CHOOSE i \in 1..Len(s) :
             /\ SubSeq(s, i, i) = "."
             /\ \A j \in (i + 1)..Len(s) : SubSeq(s, j, j) # "."
    ELSE 0

\* input_file.rsplit_once(".").unwrap().0
InputStem(path) == SubSeq(path, 1, LastDot(path) - 1)

(***************************************************************************)
(* Record model and identity scheme.                                       *)
(***************************************************************************)
MkAnswers(text, answer_start) == [text |-> text, answer_start |-> answer_start]

MkExample(title, context, question, answers) ==
    [title |-> title, context |-> context, question |-> question,
     answers |-> answers]

\* HashMap::new()
EmptyMap == <<>>

\* HashMap::insert
Insert(m, k, v) == [x \in DOMAIN m \cup {k} |-> IF x = k THEN v ELSE m[x]]

\* HashMap::contains_key
ContainsKey(m, k) == k \in DOMAIN m

\* A test for the wrong separator.
IsCleanId_underscore(k) == ~Contains(k, "_")

\* !k.contains('-')
IsCleanId(k) == ~Contains(k, "-")

\* k.split('-').next().unwrap(): the text before the first hyphen.
BaseId(k) ==
    IF Contains(k, "-")
    THEN LET h == CHOOSE i \in 1..Len(k) :
                      /\ SubSeq(k, i, i) = "-"
                      /\ \A j \in 1..(i - 1) : SubSeq(k, j, j) # "-"
         IN  SubSeq(k, 1, h - 1)
    ELSE k

\* k.to_string() + "-high-conf"
AltId(k) == Concat(k, "-high-conf")

(***************************************************************************)
(* JSON values (serde_json::Value).                                        *)
(***************************************************************************)
JNull == [t |-> "null", v |-> 0]
JStr(s) == [t |-> "string", v |-> s]
JInt(n) == [t |-> "number", v |-> n]
JArr(s) == [t |-> "array", v |-> s]
JObj(f) == [t |-> "object", v |-> f]

\* value[key]: Null when value is no object or has no such key.
Field(value, key) ==
    IF value.t = "object" /\ key \in DOMAIN value.v THEN value.v[key] ELSE JNull

\* as_array(), as_str() and as_i64() return Some.
IsArray(value) == value.t = "array"
IsStr(value) == value.t = "string"
IsI64(value) == value.t = "number"

(***************************************************************************)
(* Corpus loader: read_raw_examples.                                       *)
(***************************************************************************)
\* Every unwrap() of the loader succeeds on the document: data, paragraphs,
\* qas and answers are arrays, title, context, question, id and text are
\* strings, answer_start is an i64.
AnswerOk(answer) ==
    /\ IsI64(Field(answer, "answer_start"))
    /\ IsStr(Field(answer, "text"))

QaOk(qa) ==
    /\ IsStr(Field(qa, "question"))
    /\ IsStr(Field(qa, "id"))
    /\ IsArray(Field(qa, "answers"))
    /\ \A i \in DOMAIN Field(qa, "answers").v :
           AnswerOk(Field(qa, "answers").v[i])

ParagraphOk(paragraph) ==
    /\ IsStr(Field(paragraph, "context"))
    /\ IsArray(Field(paragraph, "qas"))
    /\ \A i \in DOMAIN Field(paragraph, "qas").v :
           QaOk(Field(paragraph, "qas").v[i])

PargroupOk(pargroup) ==
    /\ IsStr(Field(pargroup, "title"))
    /\ IsArray(Field(pargroup, "paragraphs"))
    /\ \A i \in DOMAIN Field(pargroup, "paragraphs").v :
           ParagraphOk(Field(pargroup, "paragraphs").v[i])

DocOk(binding) ==
    /\ IsArray(Field(binding, "data"))
    /\ \A i \in DOMAIN Field(binding, "data").v :
           PargroupOk(Field(binding, "data").v[i])

\* The Example built from one qa of a paragraph.
QaExample(title, context, qa) ==
    LET answers == Field(qa, "answers").v
    IN  MkExample(title, context, Field(qa, "question").v,
            MkAnswers([i \in 1..Len(answers) |-> Field(answers[i], "text").v],
                      [i \in 1..Len(answers) |->
                           Field(answers[i], "answer_start").v]))

\* for qa in qas: raw_examples.insert(id, Example {..}); a later duplicate id
\* replaces the earlier entry.
RECURSIVE LoadQas(_, _, _, _)
LoadQas(m, title, context, qas) ==
    IF qas = <<>> THEN m
    ELSE LoadQas(Insert(m, Field(Head(qas), "id").v,
                        QaExample(title, context, Head(qas))),
                 title, context, Tail(qas))

RECURSIVE LoadParagraphs(_, _, _)
LoadParagraphs(m, title, paragraphs) ==
    IF paragraphs = <<>> THEN m
    ELSE LoadParagraphs(
             LoadQas(m, title, Field(Head(paragraphs), "context").v,
                     Field(Head(paragraphs), "qas").v),
             title, Tail(paragraphs))

RECURSIVE LoadPargroups(_, _)
LoadPargroups(m, data) ==
    IF data = <<>> THEN m
    ELSE LoadPargroups(
             LoadParagraphs(m, Field(Head(data), "title").v,
                            Field(Head(data), "paragraphs").v),
             Tail(data))

\* read_raw_examples(path): ok with the corpus, or not ok when the file cannot
\* be opened (Err) or an unwrap() fails (panic); main unwraps the result, so
\* the run aborts either way.
read_raw_examples(files, path) ==
    IF ~ContainsKey(files, path) \/ ~DocOk(files[path])
    THEN [ok |-> FALSE, examples |-> EmptyMap]
    ELSE [ok |-> TRUE,
          examples |-> LoadPargroups(EmptyMap, Field(files[path], "data").v)]

(***************************************************************************)
(* Corpus writer: write_training_examples.                                 *)
(***************************************************************************)
\* The orders in which a HashMap may yield its keys.
Orders(m) ==
    {order \in [1..Cardinality(DOMAIN m) -> DOMAIN m] :
        \A i, j \in DOMAIN order : order[i] = order[j] => i = j}

\* Serialize for Answers.
AnswersJson(answers) ==
    JObj([text |-> JArr([i \in DOMAIN answers.text |-> JStr(answers.text[i])]),
          answer_start |->
              JArr([i \in DOMAIN answers.answer_start |->
                        JInt(answers.answer_start[i])])])

\* A writer that pushes the context into the title array as well.
write_training_examples_title_slip(examples, order) ==
    JObj([data |->
        JObj([title |-> JArr([i \in DOMAIN order |-> JStr(examples[order[i]].context)]),
              context |-> JArr([i \in DOMAIN order |-> JStr(examples[order[i]].context)]),
              question |-> JArr([i \in DOMAIN order |-> JStr(examples[order[i]].question)]),
              id |-> JArr([i \in DOMAIN order |-> JStr(order[i])]),
              answers |-> JArr([i \in DOMAIN order |->
                                    AnswersJson(examples[order[i]].answers)])])])

\* The JSON value written for `examples` when the HashMap yields its keys in
\* `order`: {"data": Output}, Output being five parallel arrays.
write_training_examples(examples, order) ==
    JObj([data |->
        JObj([title |-> JArr([i \in DOMAIN order |-> JStr(examples[order[i]].title)]),
              context |-> JArr([i \in DOMAIN order |-> JStr(examples[order[i]].context)]),
              question |-> JArr([i \in DOMAIN order |-> JStr(examples[order[i]].question)]),
              id |-> JArr([i \in DOMAIN order |-> JStr(order[i])]),
              answers |-> JArr([i \in DOMAIN order |->
                                    AnswersJson(examples[order[i]].answers)])])])

(***************************************************************************)
(* Partition rules.  Each *_step is one iteration of the rule's loop       *)
(* `for (k, v) in raw_examples` on the loop state st = [out, count,        *)
(* sample, panicked].                                                      *)
(***************************************************************************)
ZeroCount == [clean |-> 0, appended |-> 0, prepended |-> 0]

\* get_clean_examples, loop body.
get_clean_examples_step(raw, st, k) ==
    IF IsCleanId(k)
    THEN [st EXCEPT !.out = Insert(@, k, raw[k]), !.count.clean = @ + 1]
    ELSE st

\* A loop body that keys a variant by its base id, as the other rules do.
get_challenge_examples_step_base_key(raw, st, k) ==
    IF IsCleanId(k)
    THEN [st EXCEPT !.count.clean = @ + 1]
    ELSE [st EXCEPT !.out = Insert(@, BaseId(k), raw[k]),
                    !.count.appended = @ + 1]

\* get_challenge_examples, loop body: clean_count is count.clean and
\* challenge_count is count.appended.
get_challenge_examples_step(raw, st, k) ==
    IF IsCleanId(k)
    THEN [st EXCEPT !.count.clean = @ + 1]
    ELSE [st EXCEPT !.out = Insert(@, k, raw[k]), !.count.appended = @ + 1]

\* A threshold that is off by one.
AppendBucket_inclusive(s) == IF s <= AppendCleanBound THEN "clean" ELSE "appended"

\* get_append_examples: the bucket of a sample.
AppendBucket(s) == IF s < AppendCleanBound THEN "clean" ELSE "appended"

\* A loop body without the contains_key(baseid) test on the variant path.
get_append_examples_step_no_base_test(raw, st, k, s) ==
    IF IsCleanId(k)
    THEN IF ~ContainsKey(raw, AltId(k))
         THEN [st EXCEPT !.out = Insert(@, k, raw[k]), !.count.clean = @ + 1]
         ELSE st
    ELSE IF AppendBucket(s) = "clean" /\ ContainsKey(raw, BaseId(k))
         THEN [st EXCEPT !.sample = Insert(@, k, s),
                         !.out = Insert(@, BaseId(k), raw[BaseId(k)]),
                         !.count.clean = @ + 1]
         ELSE [st EXCEPT !.sample = Insert(@, k, s),
                         !.out = Insert(@, BaseId(k), raw[k]),
                         !.count.appended = @ + 1]

\* get_append_examples, loop body; s is the value gen_range returns if the
\* body draws.
get_append_examples_step(raw, st, k, s) ==
    IF IsCleanId(k)
    THEN IF ~ContainsKey(raw, AltId(k))
         THEN [st EXCEPT !.out = Insert(@, k, raw[k]), !.count.clean = @ + 1]
         ELSE st
    ELSE IF ContainsKey(raw, BaseId(k))
         THEN IF AppendBucket(s) = "clean"
              THEN [st EXCEPT !.sample = Insert(@, k, s),
                              !.out = Insert(@, BaseId(k), raw[BaseId(k)]),
                              !.count.clean = @ + 1]
              ELSE [st EXCEPT !.sample = Insert(@, k, s),
                              !.out = Insert(@, BaseId(k), raw[k]),
                              !.count.appended = @ + 1]
         ELSE st

\* get_twoway_examples: the bucket of a sample.
TwowayBucket(s) ==
    IF s < TwowayCleanBound THEN "clean"
    ELSE IF s < TwowayAppendBound THEN "appended"
    ELSE "prepended"

\* The slice taken without trim().
PrefixText_no_trim(v, v2) ==
    Concat(SliceFrom(v.context, Len(v2.context)), " ")

\* The prepend path's last_sentence: v.context[v2.context.len()..].trim()
\* followed by one space.
PrefixText(v, v2) ==
    Concat(Trim(SliceFrom(v.context, Len(v2.context))), " ")

\* start_offset taken before the space is added to last_sentence.
Prepend_offset_before_space(v, v2) ==
    LET last_sentence == PrefixText(v, v2)
        start_offset == Len(last_sentence) - 1
        answers == [v2.answers EXCEPT
                       !.answer_start = [i \in DOMAIN @ |-> @[i] + start_offset]]
    IN  MkExample(v2.title, Concat(last_sentence, v2.context), v2.question,
                  answers)

\* The Example the prepend path builds from variant v and base v2.
Prepend(v, v2) ==
    LET last_sentence == PrefixText(v, v2)
        start_offset == Len(last_sentence)
        answers == [v2.answers EXCEPT
                       !.answer_start = [i \in DOMAIN @ |-> @[i] + start_offset]]
    IN  MkExample(v2.title, Concat(last_sentence, v2.context), v2.question,
                  answers)

\* The slice v.context[v2.context.len()..] panics: the offset is past the end
\* of v.context or not on a character boundary.
SlicePanics(v, v2) == ~IsCharBoundary(v.context, Len(v2.context))

\* get_twoway_examples, loop body.
get_twoway_examples_step(raw, st, k, s) ==
    IF IsCleanId(k)
    THEN IF ~ContainsKey(raw, AltId(k))
         THEN [st EXCEPT !.out = Insert(@, k, raw[k]), !.count.clean = @ + 1]
         ELSE st
    ELSE IF ContainsKey(raw, BaseId(k))
         THEN CASE TwowayBucket(s) = "clean" ->
                       [st EXCEPT !.sample = Insert(@, k, s),
                                  !.out = Insert(@, BaseId(k), raw[BaseId(k)]),
                                  !.count.clean = @ + 1]
                [] TwowayBucket(s) = "appended" ->
                       [st EXCEPT !.sample = Insert(@, k, s),
                                  !.out = Insert(@, BaseId(k), raw[k]),
                                  !.count.appended = @ + 1]
                [] OTHER ->
                       IF SlicePanics(raw[k], raw[BaseId(k)])
                       THEN [st EXCEPT !.sample = Insert(@, k, s),
                                       !.panicked = TRUE]
                       ELSE [st EXCEPT !.sample = Insert(@, k, s),
                                       !.out = Insert(@, BaseId(k),
                                                   Prepend(raw[k], raw[BaseId(k)])),
                                       !.count.prepended = @ + 1]
         ELSE st

(***************************************************************************)
(* Input files, in the input file format                                   *)
(* {"data": [{"title", "paragraphs": [{"context", "qas": [{"question",     *)
(* "id", "answers": [{"answer_start", "text"}]}]}]}]}.                     *)
(***************************************************************************)
Answer(answer_start, text) ==
    JObj([answer_start |-> JInt(answer_start), text |-> JStr(text)])

Qa(id, question, answers) ==
    JObj([question |-> JStr(question), id |-> JStr(id),
          answers |-> JArr(answers)])

Paragraph(context, qas) == JObj([context |-> JStr(context), qas |-> JArr(qas)])

Pargroup(title, paragraphs) ==
    JObj([title |-> JStr(title), paragraphs |-> JArr(paragraphs)])

Squad(data) == JObj([data |-> JArr(data)])

\* A question and its high-confidence variant, whose context appends one
\* sentence to the original passage.
ParisDoc ==
    Squad(<<Pargroup("T", <<
        Paragraph("Paris is the capital. It is large.",
            <<Qa("Q1", "What is the capital?", <<Answer(0, "Paris")>>)>>),
        Paragraph("Paris is the capital. It is large. Rome is also a capital.",
            <<Qa("Q1-high-conf", "What is the capital?",
                 <<Answer(0, "Paris")>>)>>)>>)>>)

\* A question whose only variant is not -high-conf, and a variant whose
\* base id is not in the file.
LowConfDoc ==
    Squad(<<Pargroup("U", <<
        Paragraph("ab cd.", <<Qa("Q2", "q2?", <<Answer(3, "cd")>>)>>),
        Paragraph("ab cd. ef", <<Qa("Q2-low-conf", "q2?", <<Answer(3, "cd")>>)>>),
        Paragraph("gh", <<Qa("Q3-high-conf", "q3?", <<>>)>>)>>)>>)

\* A variant whose rewritten context is shorter than the base's context; the
\* base has two answers.
ShortDoc ==
    Squad(<<Pargroup("V", <<
        Paragraph("ab cd ef",
            <<Qa("Q4", "q4?", <<Answer(0, "ab"), Answer(3, "cd")>>)>>),
        Paragraph("ab cd",
            <<Qa("Q4-high-conf", "q4?", <<Answer(0, "ab")>>)>>)>>)>>)

\* A variant whose context has a two-byte character across the base
\* context's length.
Utf8Doc ==
    Squad(<<Pargroup("W", <<
        Paragraph("ab", <<Qa("Q5", "q5?", <<Answer(0, "ab")>>)>>),
        Paragraph("a<>b x", <<Qa("Q5-high-conf", "q5?", <<Answer(0, "a")>>)>>)>>)>>)

\* A question with two variants and a repeated id; the appended text has
\* white space on both sides, or is empty; one answer's text is not the
\* context's text at its offset.
BothDoc ==
    Squad(<<
        Pargroup("X", <<
            Paragraph("zz", <<Qa("Q6", "old?", <<>>)>>),
            Paragraph("ab",
                <<Qa("Q6", "q6?", <<Answer(1, "b"), Answer(0, "zz")>>),
                  Qa("Q6-low-conf", "q6?", <<Answer(1, "b")>>)>>)>>),
        Pargroup("Y", <<
            Paragraph("ab \tcd\n", <<Qa("Q6-high-conf", "q6?",
                                       <<Answer(1, "b")>>)>>)>>)>>)

\* A file whose answer_start is a string.
MalformedDoc ==
    Squad(<<Pargroup("Z", <<
        Paragraph("ab",
            <<JObj([question |-> JStr("q7?"), id |-> JStr("Q7"),
                    answers |-> JArr(<<JObj([answer_start |-> JStr("0"),
                                            text |-> JStr("ab")])>>)])>>)>>)>>)

\* The directories the program is started in: one input file each.
InitialDirs ==
    {[p \in {"train.json"} |-> doc] :
        doc \in {ParisDoc, LowConfDoc, ShortDoc, Utf8Doc, BothDoc, MalformedDoc}}
    \cup {[p \in {"corpus"} |-> ParisDoc]}

\* A path no file has.
MissingPath == "none.json"

(***************************************************************************)
(* The program.                                                            *)
(***************************************************************************)
NothingWritten == [path |-> "", examples |-> EmptyMap]

Init ==
    /\ fs \in InitialDirs
    /\ runs = 0
    /\ pc = "idle"
    /\ input_file = ""
    /\ raw_examples = EmptyMap
    /\ todo = {}
    /\ out = EmptyMap
    /\ count = ZeroCount
    /\ sample = EmptyMap
    /\ written = NothingWritten

\* The loop state of the running rule.
LoopState == [out |-> out, count |-> count, sample |-> sample, panicked |-> FALSE]

\* One iteration of the running loop on key k took the loop state to st.
Iterate(k, st) ==
    /\ todo' = todo \ {k}
    /\ out' = st.out
    /\ count' = st.count
    /\ sample' = st.sample
    /\ pc' = IF st.panicked THEN "panic" ELSE pc
    /\ UNCHANGED <<fs, runs, input_file, raw_examples, written>>

\* A rule's loop starts: fresh HashMap, counters at 0, every key to visit.
EnterRule(rule, raw) ==
    /\ pc' = rule
    /\ todo' = DOMAIN raw
    /\ out' = EmptyMap
    /\ count' = ZeroCount
    /\ sample' = EmptyMap

\* write_training_examples(examples, path): the HashMap is consumed in any
\* order and the file created or replaced.
WriteFile(examples, path) ==
    /\ \E order \in Orders(examples) :
           fs' = Insert(fs, path, write_training_examples(examples, order))
    /\ written' = [path |-> path, examples |-> examples]

\* main, up to the first rule: the program is started with subcommand cmd on
\* INFILE path; a failed read or an input path without "." aborts the run.
Start(cmd, path) ==
    /\ pc \in {"idle", "done", "panic"}
    /\ runs < MaxRuns
    /\ runs' = runs + 1
    /\ LET r == read_raw_examples(fs, path)
       IN  IF r.ok /\ LastDot(path) > 0
           THEN /\ raw_examples' = r.examples
                /\ input_file' = path
                /\ EnterRule(IF cmd = "train" THEN "clean" ELSE "challenge", r.examples)
           ELSE /\ raw_examples' = EmptyMap
                /\ input_file' = path
                /\ pc' = "panic"
                /\ todo' = {}
                /\ out' = EmptyMap
                /\ count' = ZeroCount
                /\ sample' = EmptyMap
    /\ UNCHANGED <<fs, written>>

\* get_clean_examples: one iteration.
CleanStep ==
    /\ pc = "clean"
    /\ \E k \in todo : Iterate(k, get_clean_examples_step(raw_examples, LoopState, k))

\* get_clean_examples returns; main writes <stem>-clean.json and calls
\* get_append_examples.
CleanFinish ==
    /\ pc = "clean"
    /\ todo = {}
    /\ WriteFile(out, Concat(InputStem(input_file), "-clean.json"))
    /\ EnterRule("append", raw_examples)
    /\ UNCHANGED <<runs, input_file, raw_examples>>

\* get_append_examples: one iteration.
AppendStep ==
    /\ pc = "append"
    /\ \E k \in todo, s \in Samples :
           Iterate(k, get_append_examples_step(raw_examples, LoopState, k, s))

\* get_append_examples returns; main writes <stem>-append.json and calls
\* get_twoway_examples.
AppendFinish ==
    /\ pc = "append"
    /\ todo = {}
    /\ WriteFile(out, Concat(InputStem(input_file), "-append.json"))
    /\ EnterRule("twoway", raw_examples)
    /\ UNCHANGED <<runs, input_file, raw_examples>>

\* get_twoway_examples: one iteration.
TwowayStep ==
    /\ pc = "twoway"
    /\ \E k \in todo, s \in Samples :
           Iterate(k, get_twoway_examples_step(raw_examples, LoopState, k, s))

\* get_twoway_examples returns; main writes <stem>-twoway.json and ends.
TwowayFinish ==
    /\ pc = "twoway"
    /\ todo = {}
    /\ WriteFile(out, Concat(InputStem(input_file), "-twoway.json"))
    /\ pc' = "done"
    /\ UNCHANGED <<runs, input_file, raw_examples, todo, out, count, sample>>

\* get_challenge_examples: one iteration.
ChallengeStep ==
    /\ pc = "challenge"
    /\ \E k \in todo :
           Iterate(k, get_challenge_examples_step(raw_examples, LoopState, k))

\* get_challenge_examples returns; main writes <stem>Challenge.json and ends.
ChallengeFinish ==
    /\ pc = "challenge"
    /\ todo = {}
    /\ WriteFile(out, Concat(InputStem(input_file), "Challenge.json"))
    /\ pc' = "done"
    /\ UNCHANGED <<runs, input_file, raw_examples, todo, out, count, sample>>

Next ==
    \/ \E cmd \in {"train", "challenge"}, path \in DOMAIN fs \cup {MissingPath} :
           Start(cmd, path)
    \/ CleanStep
    \/ CleanFinish
    \/ AppendStep
    \/ AppendFinish
    \/ TwowayStep
    \/ TwowayFinish
    \/ ChallengeStep
    \/ ChallengeFinish

Spec == Init /\ [][Next]_vars

(***************************************************************************)
(* Properties.                                                             *)
(***************************************************************************)
\* The ids of a corpus with a hyphen, and those without.
HyphenIds(raw) == {k \in DOMAIN raw : \E i \in 1..Len(k) : SubSeq(k, i, i) = "-"}
PlainIds(raw) == DOMAIN raw \ HyphenIds(raw)

\* The text of id k before its first hyphen.
Prefix(k) ==
    LET hyphens == {i \in 1..Len(k) : SubSeq(k, i, i) = "-"}
    IN  IF hyphens = {} THEN k
        ELSE SubSeq(k, 1, (CHOOSE i \in hyphens : \A j \in hyphens : i <= j) - 1)

\* The variant ids of base id b in a corpus.
VariantsOf(raw, b) == {k \in HyphenIds(raw) : Prefix(k) = b}

\* The loop of `rule` is over: out is the split the rule returns.
Returns(rule) == pc = rule /\ todo = {}

\* C1: the split get_clean_examples returns has exactly the corpus ids without
\* a hyphen as keys, each mapped to the corpus Example of the same id.
C1_CleanSplit ==
    Returns("clean") =>
        /\ DOMAIN out = PlainIds(raw_examples)
        /\ \A k \in DOMAIN out : out[k] = raw_examples[k]

\* C1: get_clean_examples has returned a split of a corpus that also holds
\* hyphenated ids.
C1_Witness ==
    /\ Returns("clean")
    /\ out # EmptyMap
    /\ HyphenIds(raw_examples) # {}

\* C2: the split get_challenge_examples returns has exactly the corpus ids
\* with a hyphen as keys (the full id), each mapped to the corpus Example of
\* that id; no id without a hyphen is a key.
C2_ChallengeSplit ==
    Returns("challenge") =>
        /\ DOMAIN out = HyphenIds(raw_examples)
        /\ \A k \in DOMAIN out : out[k] = raw_examples[k]
        /\ DOMAIN out \cap PlainIds(raw_examples) = {}

\* C2: get_challenge_examples has returned two variants of one base id, from
\* a corpus that holds the base id too.
C2_Witness ==
    /\ Returns("challenge")
    /\ \E k1, k2 \in DOMAIN out :
           /\ k1 # k2
           /\ Prefix(k1) = Prefix(k2)
           /\ Prefix(k1) \in PlainIds(raw_examples)

\* C3: in get_append_examples, a base id b whose only variant is b-high-conf
\* has no entry before the variant is visited; once it is, exactly one sample
\* s was drawn for b, 0 <= s < 69808, and the entry under b is the clean
\* Example when s < 26009 and the variant's Example when s >= 26009.
C3_AppendChoice ==
    pc = "append" =>
        \A b \in PlainIds(raw_examples) :
            LET hc == b \o "-high-conf"
            IN  VariantsOf(raw_examples, b) = {hc} =>
                    IF hc \in todo
                    THEN b \notin DOMAIN out
                    ELSE /\ {k \in DOMAIN sample : Prefix(k) = b} = {hc}
                         /\ sample[hc] \in 0..69807
                         /\ b \in DOMAIN out
                         /\ sample[hc] < 26009 => out[b] = raw_examples[b]
                         /\ sample[hc] >= 26009 => out[b] = raw_examples[hc]

\* C3: get_append_examples returns the variant's Example under the base id,
\* for the sample 26009.
C3_Witness ==
    /\ Returns("append")
    /\ \E b \in PlainIds(raw_examples) :
           /\ VariantsOf(raw_examples, b) = {b \o "-high-conf"}
           /\ sample[b \o "-high-conf"] = 26009
           /\ out[b] = raw_examples[b \o "-high-conf"]
           /\ out[b] # raw_examples[b]

\* The loop of get_append_examples or get_twoway_examples takes a step.
\* The id it visits is Visited.
Visits(rule) == pc = rule /\ todo' # todo /\ todo' \subseteq todo
Visited == CHOOSE k \in todo \ todo' : TRUE

\* A variant id whose base id is a key of the corpus.
HasBase(raw, k) == k \in HyphenIds(raw) /\ Prefix(k) \in DOMAIN raw

\* The adversarial sentence of variant v over base v2, as the prepend
\* transformation takes it: the rest of v's context from offset
\* len(v2.context), trimmed, and one space.
PrefixTextOf(v, v2) ==
    Trim(SubSeq(v.context, Len(v2.context) + 1, Len(v.context))) \o " "

\* The Example the prepend transformation is specified to build.
PrependedExample(v, v2) ==
    [title |-> v2.title,
     context |-> PrefixTextOf(v, v2) \o v2.context,
     question |-> v2.question,
     answers |-> [text |-> v2.answers.text,
                  answer_start |->
                      [i \in DOMAIN v2.answers.answer_start |->
                           v2.answers.answer_start[i] + Len(PrefixTextOf(v, v2))]]]

\* C4: when get_twoway_examples visits a variant id k whose base id b is in
\* the corpus, the sample s it draws, 0 <= s < 69808, puts under key b the
\* clean Example for s < 11339, the variant's Example for 11339 <= s < 40469
\* and the prepended Example for 40469 <= s; the three ranges have sizes
\* 11339, 29130 and 29339.
C4_TwowayBuckets ==
    [][Visits("twoway") /\ HasBase(raw_examples, Visited) =>
        LET k == Visited
            b == Prefix(k)
        IN  /\ k \in DOMAIN sample'
            /\ sample'[k] \in 0..69807
            /\ sample'[k] < 11339 =>
                   out' = Insert(out, b, raw_examples[b])
            /\ 11339 <= sample'[k] /\ sample'[k] < 40469 =>
                   out' = Insert(out, b, raw_examples[k])
            /\ 40469 <= sample'[k] =>
                   out' = Insert(out, b,
                              PrependedExample(raw_examples[k], raw_examples[b]))
            /\ TwowayCleanBound = 11339
            /\ TwowayAppendBound - TwowayCleanBound = 29130
            /\ SampleRange - TwowayAppendBound = 29339]_vars

\* C5: every Example get_twoway_examples produces on the prepend path from
\* variant v and base v2 has context prefix_text + v2.context, the title,
\* question and answer texts of v2, every answer_start shifted by
\* len(prefix_text), and every answer text that was at its offset in
\* v2.context is at its new offset in the new context.
C5_PrependedExample ==
    [][Visits("twoway") /\ HasBase(raw_examples, Visited)
       /\ pc' = "twoway" /\ sample'[Visited] >= 40469 =>
        LET v == raw_examples[Visited]
            v2 == raw_examples[Prefix(Visited)]
            new == out'[Prefix(Visited)]
            prefix_text == PrefixTextOf(v, v2)
        IN  /\ new.context = prefix_text \o v2.context
            /\ new.title = v2.title
            /\ new.question = v2.question
            /\ new.answers.text = v2.answers.text
            /\ DOMAIN new.answers.answer_start = DOMAIN v2.answers.answer_start
            /\ \A i \in DOMAIN v2.answers.answer_start :
                   /\ new.answers.answer_start[i]
                          = v2.answers.answer_start[i] + Len(prefix_text)
                   /\ SubSeq(v2.context, v2.answers.answer_start[i] + 1,
                             v2.answers.answer_start[i] + Len(v2.answers.text[i]))
                          = v2.answers.text[i]
                      => SubSeq(new.context, new.answers.answer_start[i] + 1,
                                new.answers.answer_start[i]
                                    + Len(new.answers.text[i]))
                             = new.answers.text[i]]_vars

\* C5: the split of get_twoway_examples holds a prepended Example: under a
\* base id, an Example that is neither the base's nor a variant's, whose
\* context ends with the base's context and whose answer is in place.
C5_Witness ==
    /\ pc = "twoway"
    /\ \E b \in DOMAIN out :
           /\ \A k \in DOMAIN raw_examples : out[b] # raw_examples[k]
           /\ \E k \in DOMAIN sample : Prefix(k) = b /\ sample[k] >= 40469
           /\ Len(out[b].context) > Len(raw_examples[b].context) + 1
           /\ \E i \in DOMAIN out[b].answers.text :
                  /\ out[b].answers.answer_start[i]
                         > raw_examples[b].answers.answer_start[i]
                  /\ SubSeq(out[b].context, out[b].answers.answer_start[i] + 1,
                            out[b].answers.answer_start[i]
                                + Len(out[b].answers.text[i]))
                         = out[b].answers.text[i]

\* The example corpus: Q1 and its high-confidence variant.
ParisCorpus ==
    [k \in {"Q1", "Q1-high-conf"} |->
        [title |-> "T",
         context |-> IF k = "Q1"
                     THEN "Paris is the capital. It is large."
                     ELSE "Paris is the capital. It is large. Rome is also a capital.",
         question |-> "What is the capital?",
         answers |-> [text |-> <<"Paris">>, answer_start |-> <<0>>]]]

\* get_twoway_examples has taken the prepend path for Q1-high-conf of the
\* example corpus.
ParisPrepended ==
    /\ pc = "twoway"
    /\ raw_examples = ParisCorpus
    /\ "Q1-high-conf" \in DOMAIN sample
    /\ sample["Q1-high-conf"] \in 40469..69807

\* C6 as stated: on the example corpus, with the sample in [40469, 69808),
\* get_twoway_examples puts under Q1 the context "Rome is also a capital.
\* Paris is the capital. It is large." with answer_start[0] = 25.
C6_Stated ==
    ParisPrepended =>
        /\ "Q1" \in DOMAIN out
        /\ out["Q1"].context
               = "Rome is also a capital. Paris is the capital. It is large."
        /\ out["Q1"].answers.answer_start[1] = 25

\* C6, amended: on the example corpus, with the sample in [40469, 69808),
\* get_twoway_examples puts under Q1 the context "Rome is also a capital.
\* Paris is the capital. It is large." with answer_start[0] = 24, the length
\* of "Rome is also a capital. ", and the answer text "Paris" at that offset.
C6_ParisExample ==
    ParisPrepended =>
        /\ "Q1" \in DOMAIN out
        /\ out["Q1"].context
               = "Rome is also a capital. Paris is the capital. It is large."
        /\ out["Q1"].answers.answer_start[1] = 24
        /\ Len("Rome is also a capital. ") = 24
        /\ out["Q1"].answers.text = <<"Paris">>
        /\ SubSeq(out["Q1"].context, 25, 29) = "Paris"
        /\ out["Q1"].title = "T"
        /\ out["Q1"].question = "What is the capital?"

\* C6: the loop of get_twoway_examples is over on the example corpus, after
\* the prepend path with the sample 40469.
C6_Witness ==
    /\ ParisPrepended
    /\ todo = {}
    /\ sample["Q1-high-conf"] = 40469
    /\ DOMAIN out = {"Q1"}

\* C7: the split get_append_examples or get_twoway_examples returns maps
\* every id b without a hyphen, such that b-high-conf is not in the corpus,
\* to the clean corpus Example of b.
C7_CleanOnly ==
    Returns("append") \/ Returns("twoway") =>
        \A b \in PlainIds(raw_examples) :
            (b \o "-high-conf") \notin DOMAIN raw_examples =>
                b \in DOMAIN out /\ out[b] = raw_examples[b]

\* C8: when get_append_examples or get_twoway_examples visits a variant id
\* whose base id is not a key of the corpus, the split and the counters stay
\* as they are, no sample is drawn and the loop goes on.
C8_OrphanSkipped ==
    [][(Visits("append") \/ Visits("twoway"))
       /\ Visited \in HyphenIds(raw_examples)
       /\ Prefix(Visited) \notin DOMAIN raw_examples =>
          /\ out' = out
          /\ count' = count
          /\ sample' = sample
          /\ pc' = pc]_vars

\* C8: get_twoway_examples returns a split with entries, none of them under
\* the variant's id or base id, from a corpus with a variant id whose base
\* id is missing.
C8_Witness ==
    /\ Returns("twoway")
    /\ out # EmptyMap
    /\ \E k \in HyphenIds(raw_examples) :
           /\ Prefix(k) \notin DOMAIN raw_examples
           /\ k \notin DOMAIN out
           /\ Prefix(k) \notin DOMAIN out
           /\ k \notin DOMAIN sample

\* A well-formed corpus: every variant id's base id is a key, and the two
\* arrays of every Answers have the same length.
WellFormed(raw) ==
    /\ \A k \in HyphenIds(raw) : Prefix(k) \in DOMAIN raw
    /\ \A k \in DOMAIN raw :
           Len(raw[k].answers.text) = Len(raw[k].answers.answer_start)

\* C9: on a well-formed corpus no step of a rule aborts the run.
C9_RulesNeverFail ==
    [][(pc \in {"clean", "append", "twoway", "challenge"}
            /\ WellFormed(raw_examples))
       => (pc' # "panic")]_vars

\* The id -> Example mapping the five parallel arrays of an output file
\* hold, taken index by index.
Unflatten(file) ==
    LET data == Field(file, "data")
        id == Field(data, "id").v
        at(k) == CHOOSE i \in DOMAIN id : id[i].v = k
        answers(i) == Field(data, "answers").v[i]
    IN  [k \in {id[i].v : i \in DOMAIN id} |->
            [title |-> Field(data, "title").v[at(k)].v,
             context |-> Field(data, "context").v[at(k)].v,
             question |-> Field(data, "question").v[at(k)].v,
             answers |->
                 [text |-> [j \in DOMAIN Field(answers(at(k)), "text").v |->
                                Field(answers(at(k)), "text").v[j].v],
                  answer_start |->
                      [j \in DOMAIN Field(answers(at(k)), "answer_start").v |->
                           Field(answers(at(k)), "answer_start").v[j].v]]]]

\* C10 as stated: read_raw_examples loads the file write_training_examples
\* wrote for a split and returns a mapping equal to the split.
C10_Stated ==
    written.path # "" =>
        /\ read_raw_examples(fs, written.path).ok
        /\ read_raw_examples(fs, written.path).examples = written.examples

\* C10, amended: the file write_training_examples wrote for a split holds
\* five parallel arrays, one element per id and in any order, that give back
\* the split index by index; read_raw_examples does not load that file.
C10_RoundTrip ==
    written.path # "" =>
        /\ written.path \in DOMAIN fs
        /\ Unflatten(fs[written.path]) = written.examples
        /\ \A a \in {"title", "context", "question", "id", "answers"} :
               Len(Field(Field(fs[written.path], "data"), a).v)
                   = Cardinality(DOMAIN written.examples)
        /\ ~read_raw_examples(fs, written.path).ok

\* C10: a run started on the file written for a split of two Examples has
\* aborted.
C10_Witness ==
    /\ written.path # ""
    /\ Cardinality(DOMAIN written.examples) >= 2
    /\ input_file = written.path
    /\ pc = "panic"

====
